---- MODULE Spec2Model ----
(***************************************************************************)
(* GPU timer correlation and frequency calibration (rgxtimecorr.c).        *)
(*                                                                         *)
(* The model follows the source function by function.  The DVFS table,     *)
(* the clock source selector and the time correlation ring buffer are the  *)
(* state; every hook is a sequence of steps (Stop, Calculate, Start,       *)
(* MakeTimeCorrData) executed by the thread that holds the power lock.     *)
(* The periodic hook runs on a thread of its own and takes the power lock  *)
(* with a try-acquire.  Time is scaled: the host clock moves in steps of   *)
(* TickNs nanoseconds and the thresholds are a few microseconds.           *)
(*                                                                         *)
(* Spec      the whole system; a hook called with the power lock held runs *)
(*           to its return in one step, the periodic hook step by step     *)
(* SpecSteps the hooks called with the power lock held, step by step       *)
(* SpecRing  _RGXMakeTimeCorrData store by store, against a lock-free      *)
(*           reader of the ring                                            *)
(* SpecCalc  _RGXGPUFreqCalibrationCalculate on accumulators drawn from a  *)
(*           bounded set, inside the hooks that call it                    *)
(***************************************************************************)
EXTENDS Integers, Sequences, FiniteSets, TLC

VARIABLES
    driverMode,             \* "native" or "guest" (PVRSRV_VZ_MODE_IS)
    clockAvailable,         \* OSClockMonotonicns64 returns PVRSRV_OK
    g_ui32ClockSource,      \* the clock source selector
    powerState,             \* "On" / "Off" (PVRSRVGetDevicePowerState)
    hPowerLock,             \* owner of the power lock: "none", "mgr", "periodic"
    hostSteps,              \* host time elapsed, in steps of TickNs
    hwTimer,                \* the CR timer register
    timingSpeed,            \* psRGXTimingInfo->ui32CoreClockSpeed
    tbl,                    \* RGX_GPU_DVFS_TABLE
    ui32TimeCorrSeqCount,   \* psGpuUtilFWCB->ui32TimeCorrSeqCount
    sTimeCorr,              \* psGpuUtilFWCB->sTimeCorr[]
    hook,                   \* the hook the lock-holding caller is running
    pc,                     \* its position
    arg,                    \* its argument (ui32Value / ui32NewClockSpeed)
    ui32ReturnedClockSpeed, \* local of PostClockSpeedChange, its return value
    eError,                 \* return value of _SetClock
    ppc,                    \* position of the periodic hook
    ui64TimeNow,            \* local of the periodic hook
    lastStop,               \* Stops since the last Start/Calculate (0, 1, more) and the deltas of the latest
    wpc, wSeq, wbuf,        \* record writer under test: position, new sequence, store buffer
    rpc, rS1, rS2, rSeen,   \* lock-free reader: position, samples, fields read
    published               \* sequence value -> record the writer published with it

vars == <<driverMode, clockAvailable, g_ui32ClockSource, powerState, hPowerLock, hostSteps, hwTimer,
          timingSpeed, tbl, ui32TimeCorrSeqCount, sTimeCorr, hook, pc, arg,
          ui32ReturnedClockSpeed, eError, ppc, ui64TimeNow, lastStop,
          wpc, wSeq, wbuf, rpc, rS1, rS2, rSeen, published>>

coreVars == <<driverMode, clockAvailable, g_ui32ClockSource, powerState, hPowerLock, hostSteps, hwTimer,
              timingSpeed, tbl, ui32TimeCorrSeqCount, sTimeCorr, hook, pc, arg,
              ui32ReturnedClockSpeed, eError, ppc, ui64TimeNow, lastStop>>

ringVars == <<wpc, wSeq, wbuf, rpc, rS1, rS2, rSeen, published>>

(***************************************************************************)
(* Bounds of the model.                                                    *)
(***************************************************************************)
MaxSteps == 4          \* host time stops advancing after MaxSteps steps
CounterModulus == 8    \* the 64-bit counters wrap at this value in the model
MaxAccumUs == 4        \* cap on the accumulated host time
MaxSeq == 2            \* cap on the number of records written
RingSize == 3          \* entries of sTimeCorr[] in the model
MaxRingSeq == 5        \* records the writer of SpecRing publishes
CalcMaxTicks == 12     \* accumulated ticks drawn by SpecCalc
CalcMaxUs == 6         \* accumulated host time drawn by SpecCalc

(***************************************************************************)
(* Program constants.                                                      *)
(***************************************************************************)
TickNs == 1000
RGXTIMECORR_CLOCK_MONO == 0
RGXTIMECORR_CLOCK_LAST == 3
RGX_GPU_DVFS_FIRST_CALIBRATION_TIME_US == 3
RGX_GPU_DVFS_TRANSITION_CALIBRATION_TIME_US == 2
RGX_GPU_DVFS_PERIODIC_CALIBRATION_TIME_US == 1
RGX_GPU_DVFS_TABLE_SIZE == 2
DVFSBucketHz == 3000000
UsToHz == 1000000
NominalSpeed == 2000000
PVRSRV_APPHINT_TIMECORRCLOCK == 0

\* nominal core clock speeds the system layer can report; the first two share a bucket
Speeds == {2000000, 2500000, 4000000}

(***************************************************************************)
(* External collaborators: host clocks, hardware timer, table index.       *)
(***************************************************************************)
\* the three host clocks run at the same rate with a fixed offset between them
ClockSkewNs(sel) == sel * TickNs

HostNs == hostSteps * TickNs

\* RGXGPUFreqCalibrateClockns64: the host clock selected by g_ui32ClockSource
RGXGPUFreqCalibrateClockns64(sel) == HostNs + ClockSkewNs(sel)

\* OSDivide64r64(ns, 1000, &rem)
RGXGPUFreqCalibrateClockus64(sel) == RGXGPUFreqCalibrateClockns64(sel) \div 1000

\* what ui64Clock can hold when OSClockMonotonicns64 has failed and left it unset
UninitialisedNs == {0, (CounterModulus - 1) * 1000}

\* the values RGXGPUFreqCalibrateClockns64 can return: the error of
\* OSClockMonotonicns64 is discarded and ui64Clock returned as it is
ClockReadingsNs(sel) ==
    IF sel = RGXTIMECORR_CLOCK_MONO /\ ~clockAvailable
    THEN UninitialisedNs
    ELSE {RGXGPUFreqCalibrateClockns64(sel)}

\* the values RGXGPUFreqCalibrateClockus64 can return
ClockReadingsUs(sel) == { ns \div 1000 : ns \in ClockReadingsNs(sel) }

\* RGXReadHWTimerReg: defined while powered; any value while the device is off
RGXReadHWTimerReg(power) == IF power = "On" THEN {hwTimer}
                            ELSE {hwTimer, CounterModulus - 1}

RGX_GPU_DVFS_GET_INDEX(clockfreq) == (clockfreq \div DVFSBucketHz) % RGX_GPU_DVFS_TABLE_SIZE

\* unsigned subtraction and addition of the counters
Sub64(a, b) == (a - b + CounterModulus) % CounterModulus
Add64(a, b) == (a + b) % CounterModulus

\* RGXFWIF_GET_GPU_CLOCK_FREQUENCY_HZ(deltacr, deltaos_us, rem): the quotient of
\* deltacr * 1000000 by deltaos, rounded down.  The product does not fit the
\* checker's integers, so the division is carried out three decimal digits at a time.
RGXFWIF_GET_GPU_CLOCK_FREQUENCY_HZ(deltacr, deltaos) ==
    LET q0 == deltacr \div deltaos
        r0 == deltacr % deltaos
        q1 == (r0 * 1000) \div deltaos
        r1 == (r0 * 1000) % deltaos
        q2 == (r1 * 1000) \div deltaos
    IN  q0 * UsToHz + q1 * 1000 + q2

\* RGXFWIF_GET_CRDELTA_TO_OSDELTA_K_NS(clockfreq, rem): fixed-point ns per tick, from the speed in kHz
RGXFWIF_GET_CRDELTA_TO_OSDELTA_K_NS(clockfreq) ==
    LET khz == (clockfreq + 500) \div 1000
    IN  IF khz = 0 THEN 0 ELSE (1000000 * 1000) \div khz

RGXFWIF_TIME_CORR_CURR_INDEX(seqcount) == seqcount % RingSize

(***************************************************************************)
(* The calibration period state machine, as functions of the table.        *)
(***************************************************************************)
\* a Start that gives every window the first calibration period
RGXGPUFreqCalibrationPeriodStartAlwaysFirst(t, speed, cr, os) ==
    LET ui32Index == RGX_GPU_DVFS_GET_INDEX(speed)
        uncal == (t.aui32DVFSClock[ui32Index] = 0) \/ (t.aui32DVFSClock[ui32Index] = speed)
    IN  [t EXCEPT
            !.ui64CalibrationCRTimestamp = cr,
            !.ui64CalibrationOSTimestamp = os,
            !.aui32DVFSClock = IF uncal THEN [@ EXCEPT ![ui32Index] = speed] ELSE @,
            !.ui32CalibrationPeriod = RGX_GPU_DVFS_FIRST_CALIBRATION_TIME_US,
            !.ui32CurrentDVFSId = ui32Index]

\* a Start that leaves the index of the current row where it was
RGXGPUFreqCalibrationPeriodStartKeepIndex(t, speed, cr, os) ==
    LET ui32Index == RGX_GPU_DVFS_GET_INDEX(speed)
        uncal == (t.aui32DVFSClock[ui32Index] = 0) \/ (t.aui32DVFSClock[ui32Index] = speed)
    IN  [t EXCEPT
            !.ui64CalibrationCRTimestamp = cr,
            !.ui64CalibrationOSTimestamp = os,
            !.aui32DVFSClock = IF uncal THEN [@ EXCEPT ![ui32Index] = speed] ELSE @,
            !.ui32CalibrationPeriod =
                IF uncal THEN RGX_GPU_DVFS_FIRST_CALIBRATION_TIME_US
                ELSE IF @ = RGX_GPU_DVFS_FIRST_CALIBRATION_TIME_US
                     THEN RGX_GPU_DVFS_TRANSITION_CALIBRATION_TIME_US
                     ELSE RGX_GPU_DVFS_PERIODIC_CALIBRATION_TIME_US]

\* _RGXGPUFreqCalibrationPeriodStart
RGXGPUFreqCalibrationPeriodStart(t, speed, cr, os) ==
    LET ui32Index == RGX_GPU_DVFS_GET_INDEX(speed)
        uncal == (t.aui32DVFSClock[ui32Index] = 0) \/ (t.aui32DVFSClock[ui32Index] = speed)
    IN  [t EXCEPT
            !.ui64CalibrationCRTimestamp = cr,
            !.ui64CalibrationOSTimestamp = os,
            !.aui32DVFSClock = IF uncal THEN [@ EXCEPT ![ui32Index] = speed] ELSE @,
            !.ui32CalibrationPeriod =
                IF uncal THEN RGX_GPU_DVFS_FIRST_CALIBRATION_TIME_US
                ELSE IF @ = RGX_GPU_DVFS_FIRST_CALIBRATION_TIME_US
                     THEN RGX_GPU_DVFS_TRANSITION_CALIBRATION_TIME_US
                     ELSE RGX_GPU_DVFS_PERIODIC_CALIBRATION_TIME_US,
            !.ui32CurrentDVFSId = ui32Index]

\* a Stop that never merges: the accumulators are reset every time
StopBaseReset(t, diff) == 0

\* the accumulators Stop adds to: reset first unless bAccumulatePeriod
StopBase(t, diff) == IF t.bAccumulatePeriod THEN diff ELSE 0

\* a Stop that overwrites the accumulators with its deltas, flag or no flag
RGXGPUFreqCalibrationPeriodStopOverwrite(t, cr, os) ==
    [t EXCEPT
        !.ui64CalibrationCRTimediff = Sub64(cr, t.ui64CalibrationCRTimestamp),
        !.ui64CalibrationOSTimediff = Sub64(os, t.ui64CalibrationOSTimestamp)]

\* _RGXGPUFreqCalibrationPeriodStop
RGXGPUFreqCalibrationPeriodStop(t, cr, os) ==
    [t EXCEPT
        !.ui64CalibrationCRTimediff =
            Add64(StopBase(t, @), Sub64(cr, t.ui64CalibrationCRTimestamp)),
        !.ui64CalibrationOSTimediff =
            Add64(StopBase(t, @), Sub64(os, t.ui64CalibrationOSTimestamp))]

\* the value of a build without hardware: the stored speed, no measurement
StoredClockSpeed(t) == {t.aui32DVFSClock[t.ui32CurrentDVFSId]}

\* the values ui32CalibratedClockSpeed can take in _RGXGPUFreqCalibrationCalculate:
\* the quotient, or, where a division by zero does not trap, zero
CalibratedClockSpeed(t) ==
    IF t.ui64CalibrationOSTimediff # 0
    THEN {RGXFWIF_GET_GPU_CLOCK_FREQUENCY_HZ(t.ui64CalibrationCRTimediff,
                                             t.ui64CalibrationOSTimediff)}
    ELSE {0}

\* a Calculate that stores the result and leaves the accumulators as they are
RGXGPUFreqCalibrationCalculateNoReset(t, ui32CalibratedClockSpeed) ==
    [t EXCEPT !.aui32DVFSClock = [@ EXCEPT ![t.ui32CurrentDVFSId] = ui32CalibratedClockSpeed]]

\* _RGXGPUFreqCalibrationCalculate (hardware build): the table afterwards
RGXGPUFreqCalibrationCalculate(t, ui32CalibratedClockSpeed) ==
    [t EXCEPT
        !.aui32DVFSClock = [@ EXCEPT ![t.ui32CurrentDVFSId] = ui32CalibratedClockSpeed],
        !.ui64CalibrationCRTimediff = 0,
        !.ui64CalibrationOSTimediff = 0]

\* the record _RGXMakeTimeCorrData writes
TimeCorrRecord(t, cr, osns) ==
    LET ui32CoreClockSpeed == t.aui32DVFSClock[t.ui32CurrentDVFSId]
    IN  [ui64CRTimeStamp |-> cr,
         ui64OSTimeStamp |-> osns,
         ui32CoreClockSpeed |-> ui32CoreClockSpeed,
         ui64CRDeltaToOSDeltaKNs |-> RGXFWIF_GET_CRDELTA_TO_OSDELTA_K_NS(ui32CoreClockSpeed)]

ZeroRecord == [ui64CRTimeStamp |-> 0, ui64OSTimeStamp |-> 0,
               ui32CoreClockSpeed |-> 0, ui64CRDeltaToOSDeltaKNs |-> 0]

ZeroTable == [aui32DVFSClock |-> [i \in 0 .. (RGX_GPU_DVFS_TABLE_SIZE - 1) |-> 0],
              ui32CurrentDVFSId |-> 0,
              ui64CalibrationCRTimestamp |-> 0,
              ui64CalibrationOSTimestamp |-> 0,
              ui64CalibrationCRTimediff |-> 0,
              ui64CalibrationOSTimediff |-> 0,
              ui32CalibrationPeriod |-> 0,
              bAccumulatePeriod |-> FALSE]

\* no Stop has run since the last Start or Calculate
NoStop == [n |-> 0, cr |-> 0, os |-> 0]

Guest == driverMode = "guest"

(***************************************************************************)
(* The device data the hooks work on, and the steps on it.  A step yields  *)
(* the set of its outcomes: one per value the hardware timer can return.   *)
(***************************************************************************)
Dev == [tbl |-> tbl, seq |-> ui32TimeCorrSeqCount, ring |-> sTimeCorr, lastStop |-> lastStop]

\* the accumulated host time and ticks stay within the bounds of the model
StopFits(t, cr, os) ==
    /\ StopBase(t, t.ui64CalibrationOSTimediff)
         + Sub64(os, t.ui64CalibrationOSTimestamp) <= MaxAccumUs
    /\ StopBase(t, t.ui64CalibrationCRTimediff)
         + Sub64(cr, t.ui64CalibrationCRTimestamp) < CounterModulus

DevStop(d, power, sel) ==
    UNION { { [d EXCEPT !.tbl = RGXGPUFreqCalibrationPeriodStop(d.tbl, cr, os),
                        !.lastStop = [n |-> IF d.lastStop.n = 0 THEN 1 ELSE 2,
                                      cr |-> Sub64(cr, d.tbl.ui64CalibrationCRTimestamp),
                                      os |-> Sub64(os, d.tbl.ui64CalibrationOSTimestamp)]] :
              cr \in {c \in RGXReadHWTimerReg(power) : StopFits(d.tbl, c, os)} } :
            os \in ClockReadingsUs(sel) }

DevCalculate(d, clk) ==
    [d EXCEPT !.tbl = RGXGPUFreqCalibrationCalculate(d.tbl, clk), !.lastStop = NoStop]

DevStart(d, power, sel, speed) ==
    { [d EXCEPT !.tbl = RGXGPUFreqCalibrationPeriodStart(d.tbl, speed, v[1], v[2]),
                !.lastStop = NoStop] :
      v \in RGXReadHWTimerReg(power) \X ClockReadingsUs(sel) }

\* _RGXMakeTimeCorrData
RGXMakeTimeCorrData(d, power, sel) ==
    LET ui32NewSeqCount == d.seq + 1
    IN  IF d.seq >= MaxSeq THEN {}
        ELSE { [d EXCEPT !.ring = [@ EXCEPT ![RGXFWIF_TIME_CORR_CURR_INDEX(ui32NewSeqCount)] =
                                      TimeCorrRecord(d.tbl, v[1], v[2])],
                         !.seq = ui32NewSeqCount] :
               v \in RGXReadHWTimerReg(power) \X ClockReadingsNs(sel) }

(***************************************************************************)
(* The caller that holds the power lock: its hook, position and locals,    *)
(* with the state the hook can change.                                     *)
(***************************************************************************)
Machine == [hook |-> hook, pc |-> pc, arg |-> arg, ret |-> ui32ReturnedClockSpeed,
            err |-> eError, sel |-> g_ui32ClockSource, power |-> powerState,
            lock |-> hPowerLock, speed |-> timingSpeed, dev |-> Dev]

SetMachine(m) ==
    /\ hook' = m.hook /\ pc' = m.pc /\ arg' = m.arg
    /\ ui32ReturnedClockSpeed' = m.ret /\ eError' = m.err
    /\ g_ui32ClockSource' = m.sel /\ powerState' = m.power
    /\ hPowerLock' = m.lock /\ timingSpeed' = m.speed
    /\ tbl' = m.dev.tbl /\ ui32TimeCorrSeqCount' = m.dev.seq
    /\ sTimeCorr' = m.dev.ring /\ lastStop' = m.dev.lastStop

\* the caller takes the power lock and enters hook h with argument a
Enter(m, h, a, first) ==
    [m EXCEPT !.lock = "mgr", !.hook = h, !.pc = first, !.arg = a, !.ret = a,
              !.err = "none"]

\* a PrePowerOff without the check of the driver mode
EnterPrePowerOffAnyMode(m) == Enter(m, "PrePowerOff", 0, "stop")

\* RGXGPUFreqCalibratePrePowerOff is entered
EnterPrePowerOff(m) == Enter(m, "PrePowerOff", 0, IF Guest THEN "ret" ELSE "stop")

\* the system layer has put the speed the core now runs at in
\* psRGXTimingInfo->ui32CoreClockSpeed, before it calls a Post hook
SystemLayerSetsSpeed(m, s) == [m EXCEPT !.speed = s]

\* the device has been powered up at speed s and RGXGPUFreqCalibratePostPowerOn is entered
EnterPostPowerOn(m, s) ==
    Enter([SystemLayerSetsSpeed(m, s) EXCEPT !.power = "On"], "PostPowerOn", 0,
          IF Guest THEN "ret" ELSE "entry")

\* RGXGPUFreqCalibratePreClockSpeedChange is entered
EnterPreClockSpeedChange(m) ==
    Enter(m, "PreClockSpeedChange", 0, IF Guest THEN "ret" ELSE "stop")

\* the system layer has set the new speed and
\* RGXGPUFreqCalibratePostClockSpeedChange(ui32NewClockSpeed) is entered
EnterPostClockSpeedChange(m, ui32NewClockSpeed) ==
    Enter(SystemLayerSetsSpeed(m, ui32NewClockSpeed), "PostClockSpeedChange",
          ui32NewClockSpeed, IF Guest THEN "ret" ELSE "entry")

\* a _SetClock without the range check
SetClockFirstPcUnchecked(ui32Value) == IF Guest THEN "swap" ELSE "stop"

\* where _SetClock goes after the range check
SetClockFirstPc(ui32Value) ==
    IF ui32Value >= RGXTIMECORR_CLOCK_LAST THEN "inval"
    ELSE IF Guest THEN "swap" ELSE "stop"

\* a _SetClock that stores the new selector before it calls the hooks
EnterSetClockSwapFirst(m, ui32Value) ==
    Enter([m EXCEPT !.sel = IF ui32Value < RGXTIMECORR_CLOCK_LAST THEN ui32Value ELSE @],
          "SetClock", ui32Value, SetClockFirstPc(ui32Value))

\* _SetClock(ui32Value) is entered
EnterSetClock(m, ui32Value) ==
    Enter(m, "SetClock", ui32Value, SetClockFirstPc(ui32Value))

\* every hook calibrates after Stop when the period has been reached
PcAfterStopCalibrate(h, t) ==
    IF t.ui64CalibrationOSTimediff >= t.ui32CalibrationPeriod THEN "calc"
    ELSE IF h = "SetClock" THEN "swap" ELSE "ret"

\* the position after _RGXGPUFreqCalibrationPeriodStop in each hook
PcAfterStop(h, t) ==
    IF h = "PreClockSpeedChange" THEN "ret"
    ELSE IF t.ui64CalibrationOSTimediff >= t.ui32CalibrationPeriod THEN "calc"
    ELSE IF h = "SetClock" THEN "swap" ELSE "ret"

\* the position after _RGXGPUFreqCalibrationCalculate in each hook
PcAfterCalc(h) ==
    IF h = "PostClockSpeedChange" THEN "start"
    ELSE IF h = "SetClock" THEN "swap" ELSE "ret"

\* the position after _RGXMakeTimeCorrData in each hook
PcAfterRecord(h) ==
    IF h = "PostClockSpeedChange" THEN "clear"
    ELSE IF h = "SetClock" THEN "ok" ELSE "ret"

StepStop(m) ==
    { [m EXCEPT !.dev = d, !.pc = PcAfterStop(m.hook, d.tbl)] :
      d \in DevStop(m.dev, m.power, m.sel) }

\* a division by zero either traps (the caller never returns) or yields a quotient
StepCalculate(m) ==
    { [m EXCEPT !.dev = DevCalculate(m.dev, clk),
                !.ret = IF m.hook = "PostClockSpeedChange" THEN clk ELSE m.ret,
                !.pc = PcAfterCalc(m.hook)] :
      clk \in CalibratedClockSpeed(m.dev.tbl) }
    \cup (IF m.dev.tbl.ui64CalibrationOSTimediff = 0
          THEN {[m EXCEPT !.pc = "fault"]} ELSE {})

\* a Start after which the hook goes on without correlating the timers
StepStartNoRecord(m) ==
    { [m EXCEPT !.dev = d, !.pc = PcAfterRecord(m.hook)] :
      d \in DevStart(m.dev, m.power, m.sel, m.speed) }

StepStart(m) ==
    { [m EXCEPT !.dev = d, !.pc = "rec"] : d \in DevStart(m.dev, m.power, m.sel, m.speed) }

StepMakeRecord(m) ==
    { [m EXCEPT !.dev = d, !.pc = PcAfterRecord(m.hook)] :
      d \in RGXMakeTimeCorrData(m.dev, m.power, m.sel) }

\* RGXGPUFreqCalibratePostPowerOn, the assignment of bAccumulatePeriod
StepPostPowerOnEntry(m) ==
    { [m EXCEPT !.dev.tbl.bAccumulatePeriod =
                    (RGX_GPU_DVFS_GET_INDEX(m.speed) = m.dev.tbl.ui32CurrentDVFSId),
                !.pc = "start"] }

\* a variant that calibrates on every change of bucket, however short the period
StepPostClockSpeedChangeEntryAlways(m) ==
    IF RGX_GPU_DVFS_GET_INDEX(m.arg) # m.dev.tbl.ui32CurrentDVFSId
    THEN { [m EXCEPT !.pc = "calc"] }
    ELSE { [m EXCEPT !.dev.tbl.bAccumulatePeriod = TRUE, !.pc = "ret"] }

\* RGXGPUFreqCalibratePostClockSpeedChange, the comparison of the buckets
StepPostClockSpeedChangeEntry(m) ==
    IF RGX_GPU_DVFS_GET_INDEX(m.arg) # m.dev.tbl.ui32CurrentDVFSId
    THEN { [m EXCEPT !.pc = IF m.dev.tbl.ui64CalibrationOSTimediff
                                 >= RGX_GPU_DVFS_TRANSITION_CALIBRATION_TIME_US
                            THEN "calc" ELSE "start"] }
    ELSE { [m EXCEPT !.dev.tbl.bAccumulatePeriod = TRUE, !.pc = "ret"] }

\* RGXGPUFreqCalibratePostClockSpeedChange, bAccumulatePeriod = IMG_FALSE
StepPostClockSpeedChangeClear(m) ==
    { [m EXCEPT !.dev.tbl.bAccumulatePeriod = FALSE, !.pc = "ret"] }

\* _SetClock, return PVRSRV_ERROR_INVALID_PARAMS
StepSetClockInvalid(m) ==
    { [m EXCEPT !.err = "PVRSRV_ERROR_INVALID_PARAMS", !.pc = "ret"] }

\* _SetClock, g_ui32ClockSource = ui32Value
StepSetClockSwap(m) ==
    { [m EXCEPT !.sel = m.arg, !.pc = IF Guest THEN "ok" ELSE "post"] }

\* _RGXGPUFreqCalibratePostClockSourceChange, bAccumulatePeriod = IMG_TRUE
StepPostClockSourceChangeEntry(m) ==
    { [m EXCEPT !.dev.tbl.bAccumulatePeriod = TRUE, !.pc = "start"] }

\* _SetClock, return PVRSRV_OK
StepSetClockOk(m) ==
    { [m EXCEPT !.err = "PVRSRV_OK", !.pc = "ret"] }

\* the hook returns; its caller completes the transition it is making and, but
\* between the two hooks of a clock speed change, releases the power lock
StepReturn(m) ==
    { [m EXCEPT !.pc = "idle", !.hook = "none", !.arg = 0, !.ret = 0, !.err = "none",
                !.lock = IF m.hook = "PreClockSpeedChange" THEN "mgr" ELSE "none",
                !.power = IF m.hook = "PrePowerOff" THEN "Off" ELSE m.power] }

\* the next step of the hook in progress
MgrSucc(m) ==
    CASE m.pc = "stop" -> StepStop(m)
      [] m.pc = "calc" -> StepCalculate(m)
      [] m.pc = "start" -> StepStart(m)
      [] m.pc = "rec" -> StepMakeRecord(m)
      [] m.pc = "entry" /\ m.hook = "PostPowerOn" -> StepPostPowerOnEntry(m)
      [] m.pc = "entry" /\ m.hook = "PostClockSpeedChange" -> StepPostClockSpeedChangeEntry(m)
      [] m.pc = "clear" -> StepPostClockSpeedChangeClear(m)
      [] m.pc = "inval" -> StepSetClockInvalid(m)
      [] m.pc = "swap" -> StepSetClockSwap(m)
      [] m.pc = "post" -> StepPostClockSourceChangeEntry(m)
      [] m.pc = "ok" -> StepSetClockOk(m)
      [] m.pc = "ret" -> StepReturn(m)
      [] OTHER -> {}

\* the states in which the hook entered in m has returned, or can go no further
RECURSIVE MgrRun(_)
MgrRun(m) ==
    LET next == MgrSucc(m)
    IN  IF next = {} THEN {m} ELSE UNION { MgrRun(n) : n \in next }

envVars == <<driverMode, clockAvailable, hostSteps, hwTimer>>
perVars == <<ppc, ui64TimeNow>>
mgrVars == <<hook, pc, arg, ui32ReturnedClockSpeed, eError>>
devVars == <<tbl, ui32TimeCorrSeqCount, sTimeCorr, lastStop>>

\* no hook is running with the power lock held and the lock is free
MgrIdle == pc = "idle" /\ hPowerLock = "none"

\* between RGXGPUFreqCalibratePreClockSpeedChange and ...PostClockSpeedChange
InClockSpeedChange == pc = "idle" /\ hPowerLock = "mgr"

\* once MaxSeq records have been written no hook that can write one is entered
MoreRecords == ui32TimeCorrSeqCount < MaxSeq

(***************************************************************************)
(* Spec: a hook called with the power lock held, from entry to return.     *)
(***************************************************************************)
PrePowerOff ==
    /\ MgrIdle /\ powerState = "On"
    /\ \E n \in MgrRun(EnterPrePowerOff(Machine)) : SetMachine(n)
    /\ UNCHANGED <<envVars, perVars, ringVars>>

PostPowerOn ==
    /\ MgrIdle /\ MoreRecords /\ powerState = "Off"
    /\ \E s \in Speeds : \E n \in MgrRun(EnterPostPowerOn(Machine, s)) : SetMachine(n)
    /\ UNCHANGED <<envVars, perVars, ringVars>>

PreClockSpeedChange ==
    /\ MgrIdle /\ MoreRecords /\ powerState = "On"
    /\ \E n \in MgrRun(EnterPreClockSpeedChange(Machine)) : SetMachine(n)
    /\ UNCHANGED <<envVars, perVars, ringVars>>

PostClockSpeedChange ==
    /\ InClockSpeedChange
    /\ \E s \in Speeds : \E n \in MgrRun(EnterPostClockSpeedChange(Machine, s)) : SetMachine(n)
    /\ UNCHANGED <<envVars, perVars, ringVars>>

SetClock ==
    /\ MgrIdle /\ MoreRecords
    /\ \E v \in 0 .. RGXTIMECORR_CLOCK_LAST :
          \E n \in MgrRun(EnterSetClock(Machine, v)) : SetMachine(n)
    /\ UNCHANGED <<envVars, perVars, ringVars>>

(***************************************************************************)
(* SpecSteps: the same hooks, one step at a time.                          *)
(***************************************************************************)
PrePowerOff_Call ==
    /\ MgrIdle /\ powerState = "On"
    /\ SetMachine(EnterPrePowerOff(Machine))
    /\ UNCHANGED <<envVars, perVars, ringVars>>

PostPowerOn_Call ==
    /\ MgrIdle /\ MoreRecords /\ powerState = "Off"
    /\ \E s \in Speeds : SetMachine(EnterPostPowerOn(Machine, s))
    /\ UNCHANGED <<envVars, perVars, ringVars>>

PreClockSpeedChange_Call ==
    /\ MgrIdle /\ MoreRecords /\ powerState = "On"
    /\ SetMachine(EnterPreClockSpeedChange(Machine))
    /\ UNCHANGED <<envVars, perVars, ringVars>>

PostClockSpeedChange_Call ==
    /\ InClockSpeedChange
    /\ \E s \in Speeds : SetMachine(EnterPostClockSpeedChange(Machine, s))
    /\ UNCHANGED <<envVars, perVars, ringVars>>

SetClock_Call ==
    /\ MgrIdle /\ MoreRecords
    /\ \E v \in 0 .. RGXTIMECORR_CLOCK_LAST : SetMachine(EnterSetClock(Machine, v))
    /\ UNCHANGED <<envVars, perVars, ringVars>>

MgrStop ==
    /\ pc = "stop"
    /\ \E n \in StepStop(Machine) : SetMachine(n)
    /\ UNCHANGED <<envVars, perVars, ringVars>>

MgrCalculate ==
    /\ pc = "calc"
    /\ \E n \in StepCalculate(Machine) : SetMachine(n)
    /\ UNCHANGED <<envVars, perVars, ringVars>>

MgrStart ==
    /\ pc = "start"
    /\ \E n \in StepStart(Machine) : SetMachine(n)
    /\ UNCHANGED <<envVars, perVars, ringVars>>

MgrMakeRecord ==
    /\ pc = "rec"
    /\ \E n \in StepMakeRecord(Machine) : SetMachine(n)
    /\ UNCHANGED <<envVars, perVars, ringVars>>

PostPowerOn_Entry ==
    /\ pc = "entry"
    /\ hook = "PostPowerOn"
    /\ \E n \in StepPostPowerOnEntry(Machine) : SetMachine(n)
    /\ UNCHANGED <<envVars, perVars, ringVars>>

PostClockSpeedChange_Entry ==
    /\ pc = "entry"
    /\ hook = "PostClockSpeedChange"
    /\ \E n \in StepPostClockSpeedChangeEntry(Machine) : SetMachine(n)
    /\ UNCHANGED <<envVars, perVars, ringVars>>

PostClockSpeedChange_Clear ==
    /\ pc = "clear"
    /\ \E n \in StepPostClockSpeedChangeClear(Machine) : SetMachine(n)
    /\ UNCHANGED <<envVars, perVars, ringVars>>

SetClock_Invalid ==
    /\ pc = "inval"
    /\ \E n \in StepSetClockInvalid(Machine) : SetMachine(n)
    /\ UNCHANGED <<envVars, perVars, ringVars>>

SetClock_Swap ==
    /\ pc = "swap"
    /\ \E n \in StepSetClockSwap(Machine) : SetMachine(n)
    /\ UNCHANGED <<envVars, perVars, ringVars>>

PostClockSourceChange_Entry ==
    /\ pc = "post"
    /\ \E n \in StepPostClockSourceChangeEntry(Machine) : SetMachine(n)
    /\ UNCHANGED <<envVars, perVars, ringVars>>

SetClock_Ok ==
    /\ pc = "ok"
    /\ \E n \in StepSetClockOk(Machine) : SetMachine(n)
    /\ UNCHANGED <<envVars, perVars, ringVars>>

MgrReturn ==
    /\ pc = "ret"
    /\ \E n \in StepReturn(Machine) : SetMachine(n)
    /\ UNCHANGED <<envVars, perVars, ringVars>>

(***************************************************************************)
(* RGXGPUFreqCalibrateCorrelatePeriodic, on a thread of its own.           *)
(***************************************************************************)
SetDev(d) ==
    /\ tbl' = d.tbl /\ ui32TimeCorrSeqCount' = d.seq
    /\ sTimeCorr' = d.ring /\ lastStop' = d.lastStop

\* ui64TimeNow = RGXGPUFreqCalibrateClockus64(), then the guest check
Periodic_Call ==
    /\ ppc = "idle" /\ MoreRecords
    /\ IF Guest
       THEN UNCHANGED <<ppc, ui64TimeNow>>
       ELSE /\ ui64TimeNow' \in ClockReadingsUs(g_ui32ClockSource)
            /\ ppc' = "check"
    /\ UNCHANGED <<envVars, mgrVars, devVars, g_ui32ClockSource, powerState, hPowerLock,
                   timingSpeed, ringVars>>

\* the time since the window was opened is below the calibration period
PeriodicNotDue(t, now) ==
    Sub64(now, t.ui64CalibrationOSTimestamp) < t.ui32CalibrationPeriod

\* "Check if it's the right time to recalibrate the GPU clock frequency"
Periodic_Check ==
    /\ ppc = "check"
    /\ IF PeriodicNotDue(tbl, ui64TimeNow)
       THEN ppc' = "idle" /\ ui64TimeNow' = 0
       ELSE ppc' = "trylock" /\ ui64TimeNow' = 0
    /\ UNCHANGED <<envVars, mgrVars, devVars, g_ui32ClockSource, powerState, hPowerLock,
                   timingSpeed, ringVars>>

\* OSTryLockAcquire(hPowerLock)
Periodic_TryLock ==
    /\ ppc = "trylock"
    /\ IF hPowerLock = "none"
       THEN hPowerLock' = "periodic" /\ ppc' = "power"
       ELSE hPowerLock' = hPowerLock /\ ppc' = "idle"
    /\ UNCHANGED <<envVars, mgrVars, devVars, ui64TimeNow, g_ui32ClockSource, powerState,
                   timingSpeed, ringVars>>

\* a power check that returns with the power lock held
Periodic_PowerNoUnlock ==
    /\ ppc = "power"
    /\ IF powerState # "On"
       THEN hPowerLock' = hPowerLock /\ ppc' = "idle"
       ELSE hPowerLock' = hPowerLock /\ ppc' = "stop"
    /\ UNCHANGED <<envVars, mgrVars, devVars, ui64TimeNow, g_ui32ClockSource, powerState,
                   timingSpeed, ringVars>>

\* PVRSRVGetDevicePowerState; unlock and return unless the device is on
Periodic_Power ==
    /\ ppc = "power"
    /\ IF powerState # "On"
       THEN hPowerLock' = "none" /\ ppc' = "idle"
       ELSE hPowerLock' = hPowerLock /\ ppc' = "stop"
    /\ UNCHANGED <<envVars, mgrVars, devVars, ui64TimeNow, g_ui32ClockSource, powerState,
                   timingSpeed, ringVars>>

Periodic_Stop ==
    /\ ppc = "stop"
    /\ \E d \in DevStop(Dev, powerState, g_ui32ClockSource) : SetDev(d)
    /\ ppc' = "calc"
    /\ UNCHANGED <<envVars, mgrVars, ui64TimeNow, g_ui32ClockSource, powerState, hPowerLock,
                   timingSpeed, ringVars>>

Periodic_Calculate ==
    /\ ppc = "calc"
    /\ \E clk \in CalibratedClockSpeed(tbl) : SetDev(DevCalculate(Dev, clk))
    /\ ppc' = "start"
    /\ UNCHANGED <<envVars, mgrVars, ui64TimeNow, g_ui32ClockSource, powerState, hPowerLock,
                   timingSpeed, ringVars>>

\* the division by zero in _RGXGPUFreqCalibrationCalculate traps
Periodic_DivideFault ==
    /\ ppc = "calc"
    /\ tbl.ui64CalibrationOSTimediff = 0
    /\ ppc' = "fault"
    /\ UNCHANGED <<envVars, mgrVars, ui64TimeNow, devVars, g_ui32ClockSource, powerState,
                   hPowerLock, timingSpeed, ringVars>>

Periodic_Start ==
    /\ ppc = "start"
    /\ \E d \in DevStart(Dev, powerState, g_ui32ClockSource, timingSpeed) : SetDev(d)
    /\ ppc' = "rec"
    /\ UNCHANGED <<envVars, mgrVars, ui64TimeNow, g_ui32ClockSource, powerState, hPowerLock,
                   timingSpeed, ringVars>>

Periodic_MakeRecord ==
    /\ ppc = "rec"
    /\ \E d \in RGXMakeTimeCorrData(Dev, powerState, g_ui32ClockSource) : SetDev(d)
    /\ ppc' = "unlock"
    /\ UNCHANGED <<envVars, mgrVars, ui64TimeNow, g_ui32ClockSource, powerState, hPowerLock,
                   timingSpeed, ringVars>>

\* PVRSRVPowerUnlock and return
Periodic_Unlock ==
    /\ ppc = "unlock"
    /\ hPowerLock' = "none"
    /\ ppc' = "idle"
    /\ UNCHANGED <<envVars, mgrVars, devVars, ui64TimeNow, g_ui32ClockSource, powerState,
                   timingSpeed, ringVars>>

(***************************************************************************)
(* Time: the host clock advances; the CR timer counts while powered.       *)
(***************************************************************************)
\* no hook body is in progress: the bodies are short against the step of the clock
NoBodyRunning == pc = "idle" /\ ppc \in {"idle", "check", "trylock"}

Tick ==
    /\ hostSteps < MaxSteps
    /\ NoBodyRunning
    /\ hostSteps' = hostSteps + 1
    /\ hwTimer' = IF powerState = "On" THEN (hwTimer + 1) % CounterModulus ELSE hwTimer
    /\ UNCHANGED <<driverMode, clockAvailable, mgrVars, perVars, devVars, g_ui32ClockSource,
                   powerState, hPowerLock, timingSpeed, ringVars>>

RingIdle ==
    /\ wpc = 0 /\ wSeq = 0 /\ wbuf = {}
    /\ rpc = 0 /\ rS1 = 0 /\ rS2 = 0 /\ rSeen = ZeroRecord
    /\ published = <<>>

Init ==
    /\ driverMode \in {"native", "guest"}
    /\ clockAvailable = TRUE
    /\ g_ui32ClockSource = PVRSRV_APPHINT_TIMECORRCLOCK
    /\ powerState = "Off"
    /\ hPowerLock = "none"
    /\ hostSteps = 0
    /\ hwTimer = 0
    /\ timingSpeed = NominalSpeed
    /\ tbl = ZeroTable
    /\ ui32TimeCorrSeqCount = 0
    /\ sTimeCorr = [i \in 0 .. (RingSize - 1) |-> ZeroRecord]
    /\ hook = "none" /\ pc = "idle"
    /\ arg = 0 /\ ui32ReturnedClockSpeed = 0 /\ eError = "none"
    /\ ppc = "idle" /\ ui64TimeNow = 0
    /\ lastStop = NoStop
    /\ RingIdle

Periodic ==
    \/ Periodic_Call
    \/ Periodic_Check
    \/ Periodic_TryLock
    \/ Periodic_Power
    \/ Periodic_Stop
    \/ Periodic_Calculate
    \/ Periodic_DivideFault
    \/ Periodic_Start
    \/ Periodic_MakeRecord
    \/ Periodic_Unlock

Next ==
    \/ PrePowerOff
    \/ PostPowerOn
    \/ PreClockSpeedChange
    \/ PostClockSpeedChange
    \/ SetClock
    \/ Periodic
    \/ Tick

Spec == Init /\ [][Next]_vars

NextSteps ==
    \/ PrePowerOff_Call
    \/ PostPowerOn_Call
    \/ PreClockSpeedChange_Call
    \/ PostClockSpeedChange_Call
    \/ SetClock_Call
    \/ MgrStop
    \/ MgrCalculate
    \/ MgrStart
    \/ MgrMakeRecord
    \/ PostPowerOn_Entry
    \/ PostClockSpeedChange_Entry
    \/ PostClockSpeedChange_Clear
    \/ SetClock_Invalid
    \/ SetClock_Swap
    \/ PostClockSourceChange_Entry
    \/ SetClock_Ok
    \/ MgrReturn
    \/ Tick

SpecSteps == Init /\ [][NextSteps]_vars

(***************************************************************************)
(* Properties of the hooks, checked step by step (SpecSteps).              *)
(***************************************************************************)
\* a step of the lock-holding caller that reads the CR timer: Stop, Start or
\* _RGXMakeTimeCorrData
TimerReadStep == pc \in {"stop", "start", "rec"} /\ pc' # pc

\* C2: the hardware timer is never read while the device is not On: no Stop,
\* Start or MakeRecord step of any hook, the clock source change included,
\* executes while the device is powered off.
C2_TimerReadOnlyWhileOn == [][TimerReadStep => powerState = "On"]_vars

InPostClockSpeedChange == hook = "PostClockSpeedChange"

\* r is the quotient of ticks * 1000000 by us, rounded down
IsFloorHz(r, ticks, us) ==
    r * us <= ticks * UsToHz /\ ticks * UsToHz < (r + 1) * us

\* C3: the return value of PostClockSpeedChange(newSpeed).  Same bucket as the
\* current one: newSpeed, at once.  Other bucket and accumulated host time at
\* least the transition threshold: the value Calculate derives from the
\* accumulators and stores.  Other bucket and less accumulated host time:
\* newSpeed.  No later step of the hook changes the value to return.
C3_ReturnValue ==
    [][InPostClockSpeedChange =>
        /\ (pc = "entry" /\ RGX_GPU_DVFS_GET_INDEX(arg) = tbl.ui32CurrentDVFSId)
              => (pc' = "ret" /\ ui32ReturnedClockSpeed' = arg)
        /\ (pc = "entry" /\ RGX_GPU_DVFS_GET_INDEX(arg) # tbl.ui32CurrentDVFSId
              /\ tbl.ui64CalibrationOSTimediff >= RGX_GPU_DVFS_TRANSITION_CALIBRATION_TIME_US)
              => (pc' = "calc" /\ ui32ReturnedClockSpeed' = arg)
        /\ (pc = "entry" /\ RGX_GPU_DVFS_GET_INDEX(arg) # tbl.ui32CurrentDVFSId
              /\ tbl.ui64CalibrationOSTimediff < RGX_GPU_DVFS_TRANSITION_CALIBRATION_TIME_US)
              => (pc' = "start" /\ ui32ReturnedClockSpeed' = arg)
        /\ (pc = "calc" /\ pc' # "fault")
              => /\ IsFloorHz(ui32ReturnedClockSpeed', tbl.ui64CalibrationCRTimediff,
                              tbl.ui64CalibrationOSTimediff)
                 /\ ui32ReturnedClockSpeed' = tbl'.aui32DVFSClock[tbl.ui32CurrentDVFSId]
        /\ (pc \in {"start", "rec", "clear"})
              => ui32ReturnedClockSpeed' = ui32ReturnedClockSpeed
    ]_vars

\* PostClockSpeedChange is about to return a recalculated speed that is not
\* the speed it was called with
C3_Witness ==
    /\ InPostClockSpeedChange /\ pc = "ret"
    /\ ui32ReturnedClockSpeed # arg
    /\ ~tbl.bAccumulatePeriod

InSetClock == hook = "SetClock"

\* C4: in _SetClock with a valid value the pre-change hook (Stop, reading the
\* host clock the old selector names, and Calculate) completes before the
\* selector is stored, and the post-change hook (Start and MakeTimeCorrData,
\* reading the host clock the new selector names) starts after it: no step
\* before the store changes the selector, the store changes nothing but the
\* selector, and every step after it finds the new value in place.
C4_SetClockOrder ==
    [][/\ (~InSetClock /\ hook' = "SetClock") => g_ui32ClockSource' = g_ui32ClockSource
       /\ (InSetClock /\ pc = "stop") =>
             /\ g_ui32ClockSource' = g_ui32ClockSource
             /\ pc' \in {"calc", "swap"}
             /\ tbl'.ui64CalibrationOSTimediff =
                   Add64(StopBase(tbl, tbl.ui64CalibrationOSTimediff),
                         Sub64(RGXGPUFreqCalibrateClockus64(g_ui32ClockSource),
                               tbl.ui64CalibrationOSTimestamp))
       /\ (InSetClock /\ pc = "calc") =>
             /\ g_ui32ClockSource' = g_ui32ClockSource
             /\ pc' \in {"swap", "fault"}
       /\ (InSetClock /\ pc = "swap") =>
             /\ g_ui32ClockSource' = arg
             /\ pc' \in {"post", "ok"}
             /\ UNCHANGED <<tbl, ui32TimeCorrSeqCount, sTimeCorr>>
       /\ (InSetClock /\ pc \in {"post", "start", "rec", "ok"}) =>
             /\ g_ui32ClockSource = arg
             /\ g_ui32ClockSource' = arg
       /\ (InSetClock /\ pc = "post") => pc' = "start"
       /\ (InSetClock /\ pc = "start") =>
             /\ pc' = "rec"
             /\ tbl'.ui64CalibrationOSTimestamp = RGXGPUFreqCalibrateClockus64(arg)
       /\ (InSetClock /\ pc = "rec") =>
             /\ pc' = "ok"
             /\ sTimeCorr'[RGXFWIF_TIME_CORR_CURR_INDEX(ui32TimeCorrSeqCount')].ui64OSTimeStamp
                   = RGXGPUFreqCalibrateClockns64(arg)
    ]_vars

\* the pre-change hook has closed a window of some length on the old clock and
\* the selector is about to change to another clock
C4_Witness ==
    /\ InSetClock /\ pc = "swap" /\ ~Guest
    /\ powerState = "On" /\ ui32TimeCorrSeqCount > 0
    /\ g_ui32ClockSource # arg
    /\ tbl.ui64CalibrationOSTimediff > 0

\* C5: _SetClock with a value outside the range of clock types returns
\* PVRSRV_ERROR_INVALID_PARAMS and changes nothing: the selector, the DVFS
\* table, the ring and its sequence count stay as they are, and neither the
\* pre-change nor the post-change hook runs.
C5_InvalidSelector ==
    [][/\ (~InSetClock /\ hook' = "SetClock" /\ arg' >= RGXTIMECORR_CLOCK_LAST) =>
             /\ pc' = "inval"
             /\ UNCHANGED <<g_ui32ClockSource, tbl, ui32TimeCorrSeqCount, sTimeCorr>>
       /\ (InSetClock /\ arg >= RGXTIMECORR_CLOCK_LAST) =>
             /\ pc \in {"inval", "ret"}
             /\ pc = "inval" => (pc' = "ret" /\ eError' = "PVRSRV_ERROR_INVALID_PARAMS")
             /\ pc = "ret" => eError = "PVRSRV_ERROR_INVALID_PARAMS"
             /\ UNCHANGED <<g_ui32ClockSource, tbl, ui32TimeCorrSeqCount, sTimeCorr>>
    ]_vars

\* _SetClock is about to return the error, with a window open and a record written
C5_Witness ==
    /\ InSetClock /\ pc = "ret"
    /\ arg >= RGXTIMECORR_CLOCK_LAST
    /\ eError = "PVRSRV_ERROR_INVALID_PARAMS"
    /\ ui32TimeCorrSeqCount > 0
    /\ g_ui32ClockSource # PVRSRV_APPHINT_TIMECORRCLOCK

\* a Stop step of the caller that follows another Stop with no Start and no
\* Calculate between them
SecondStopStep == pc = "stop" /\ pc' # pc /\ lastStop.n > 0

\* C8 as stated: after the second of two consecutive Stops, with
\* bAccumulatePeriod set each accumulator is the sum of the deltas of the two
\* Stops; with it clear each accumulator is the delta of the second Stop.
\* Stated for the Stops that run with the device powered.
C8_SumOfTwoDeltas ==
    [][(SecondStopStep /\ powerState = "On") =>
        /\ tbl.bAccumulatePeriod =>
              /\ tbl'.ui64CalibrationOSTimediff = Add64(lastStop.os, lastStop'.os)
              /\ tbl'.ui64CalibrationCRTimediff = Add64(lastStop.cr, lastStop'.cr)
        /\ ~tbl.bAccumulatePeriod =>
              /\ tbl'.ui64CalibrationOSTimediff = lastStop'.os
              /\ tbl'.ui64CalibrationCRTimediff = lastStop'.cr
    ]_vars

\* C8, amended: after the second of two consecutive Stops, with
\* bAccumulatePeriod set each accumulator is its value after the first Stop
\* plus the delta of the second Stop (the sum of the two deltas when the
\* first Stop started from zero); with it clear each accumulator is the delta
\* of the second Stop alone.  The delta of a Stop is the reading of the clock
\* less the timestamp taken at Start.
C8_StopMerging ==
    [][SecondStopStep =>
        /\ lastStop'.os = Sub64(RGXGPUFreqCalibrateClockus64(g_ui32ClockSource),
                                tbl.ui64CalibrationOSTimestamp)
        /\ \E cr \in RGXReadHWTimerReg(powerState) :
              lastStop'.cr = Sub64(cr, tbl.ui64CalibrationCRTimestamp)
        /\ tbl.bAccumulatePeriod =>
              /\ tbl'.ui64CalibrationOSTimediff = Add64(tbl.ui64CalibrationOSTimediff, lastStop'.os)
              /\ tbl'.ui64CalibrationCRTimediff = Add64(tbl.ui64CalibrationCRTimediff, lastStop'.cr)
        /\ ~tbl.bAccumulatePeriod =>
              /\ tbl'.ui64CalibrationOSTimediff = lastStop'.os
              /\ tbl'.ui64CalibrationCRTimediff = lastStop'.cr
    ]_vars

\* two consecutive Stops have merged windows of non-zero length
C8_Witness ==
    /\ lastStop.n = 2
    /\ tbl.bAccumulatePeriod
    /\ lastStop.os > 0
    /\ tbl.ui64CalibrationOSTimediff > lastStop.os

\* C10: after every Calculate, in whichever hook, both accumulators are zero
\* and the current row of aui32DVFSClock holds the returned value; the other
\* rows, the current index, the timestamps of the window, the calibration
\* period and bAccumulatePeriod are as before.
C10_CalculateFrame ==
    [][(pc = "calc" /\ pc' # pc /\ pc' # "fault") =>
        /\ tbl'.ui64CalibrationCRTimediff = 0
        /\ tbl'.ui64CalibrationOSTimediff = 0
        /\ InPostClockSpeedChange =>
              ui32ReturnedClockSpeed' = tbl'.aui32DVFSClock[tbl.ui32CurrentDVFSId]
        /\ tbl' = [tbl EXCEPT
                      !.ui64CalibrationCRTimediff = 0,
                      !.ui64CalibrationOSTimediff = 0,
                      !.aui32DVFSClock[tbl.ui32CurrentDVFSId] =
                          tbl'.aui32DVFSClock[tbl.ui32CurrentDVFSId]]
        /\ UNCHANGED <<ui32TimeCorrSeqCount, sTimeCorr, g_ui32ClockSource>>
    ]_vars

\* a Calculate in PrePowerOff has just stored a calibrated speed in the
\* current row while the other row holds the speed of an earlier window
C10_Witness ==
    /\ hook = "PrePowerOff" /\ pc = "ret"
    /\ lastStop.n = 0
    /\ tbl.ui64CalibrationOSTimediff = 0
    /\ tbl.ui64CalibrationCRTimestamp # 0
    /\ tbl.aui32DVFSClock[tbl.ui32CurrentDVFSId] \notin Speeds \cup {0}
    /\ \E i \in 0 .. (RGX_GPU_DVFS_TABLE_SIZE - 1) :
          i # tbl.ui32CurrentDVFSId /\ tbl.aui32DVFSClock[i] # 0

\* C15: PostClockSpeedChange(newSpeed) called with a speed whose bucket is not
\* the current one opens the new window for the new bucket: a Calculate it
\* performs stores its result in the row of the old bucket, which is still
\* the current one, and leaves the row of the new bucket alone; Start then
\* makes the bucket of newSpeed the current one; MakeTimeCorrData leaves the
\* table alone; and the hook returns with bAccumulatePeriod clear.  Stated
\* for the native driver.
C15_NewWindowForNewBucket ==
    [][(InPostClockSpeedChange /\ ~Guest) =>
        LET new == RGX_GPU_DVFS_GET_INDEX(arg)
        IN  /\ (pc = "entry" /\ new # tbl.ui32CurrentDVFSId)
                  => (pc' \in {"calc", "start"} /\ tbl' = tbl)
            /\ (pc \in {"calc", "start"}) => new # tbl.ui32CurrentDVFSId
            /\ (pc = "calc" /\ pc' # "fault")
                  => /\ pc' = "start"
                     /\ tbl'.ui32CurrentDVFSId = tbl.ui32CurrentDVFSId
                     /\ tbl'.aui32DVFSClock[new] = tbl.aui32DVFSClock[new]
                     /\ tbl'.aui32DVFSClock[tbl.ui32CurrentDVFSId] = ui32ReturnedClockSpeed'
            /\ (pc = "start")
                  => /\ pc' = "rec"
                     /\ tbl'.ui32CurrentDVFSId = new
                     /\ tbl'.aui32DVFSClock[tbl.ui32CurrentDVFSId]
                           = tbl.aui32DVFSClock[tbl.ui32CurrentDVFSId]
            /\ (pc = "rec") => (pc' = "clear" /\ tbl' = tbl)
            /\ (pc = "clear")
                  => /\ pc' = "ret"
                     /\ tbl' = [tbl EXCEPT !.bAccumulatePeriod = FALSE]
            /\ (pc \in {"rec", "clear", "ret"}) => tbl.ui32CurrentDVFSId = new
    ]_vars

\* PostClockSpeedChange is about to return from a change to another bucket:
\* the row of the old bucket holds the speed it has calibrated, the row of
\* the new one the speed it was called with
C15_Witness ==
    /\ InPostClockSpeedChange /\ pc = "ret"
    /\ ~tbl.bAccumulatePeriod
    /\ tbl.ui32CurrentDVFSId = RGX_GPU_DVFS_GET_INDEX(arg)
    /\ tbl.aui32DVFSClock[tbl.ui32CurrentDVFSId] = arg
    /\ \E i \in 0 .. (RGX_GPU_DVFS_TABLE_SIZE - 1) :
          /\ i # tbl.ui32CurrentDVFSId
          /\ tbl.aui32DVFSClock[i] = ui32ReturnedClockSpeed
          /\ ui32ReturnedClockSpeed \notin Speeds \cup {0}

\* C16: a clock speed change that changes nothing defers all work.
\* PreClockSpeedChange runs Stop and nothing else: no Calculate, no Start, no
\* record, and of the table only the accumulators change.
\* PostClockSpeedChange called with a speed of the current bucket sets
\* bAccumulatePeriod and returns the speed: the timestamps of the window, the
\* accumulators, the calibration period, aui32DVFSClock, the current index,
\* the ring and its sequence count stay as they are.
C16_NoOpTransition ==
    [][~Guest =>
        /\ (hook = "PreClockSpeedChange") =>
              /\ pc \in {"stop", "ret"}
              /\ UNCHANGED <<ui32TimeCorrSeqCount, sTimeCorr>>
              /\ pc = "stop" =>
                    /\ pc' = "ret"
                    /\ tbl' = [tbl EXCEPT
                                  !.ui64CalibrationOSTimediff = tbl'.ui64CalibrationOSTimediff,
                                  !.ui64CalibrationCRTimediff = tbl'.ui64CalibrationCRTimediff]
                    /\ lastStop'.n > 0
              /\ pc = "ret" => UNCHANGED <<tbl, lastStop>>
        /\ (hook' = "PostClockSpeedChange" /\ hook' # hook)
              => (pc' = "entry" /\ UNCHANGED <<tbl, ui32TimeCorrSeqCount, sTimeCorr, lastStop>>)
        /\ (InPostClockSpeedChange /\ pc = "entry"
              /\ RGX_GPU_DVFS_GET_INDEX(arg) = tbl.ui32CurrentDVFSId)
              => /\ pc' = "ret"
                 /\ tbl' = [tbl EXCEPT !.bAccumulatePeriod = TRUE]
                 /\ ui32ReturnedClockSpeed' = arg
                 /\ UNCHANGED <<ui32TimeCorrSeqCount, sTimeCorr, lastStop, g_ui32ClockSource>>
        /\ (InPostClockSpeedChange /\ pc = "ret")
              => UNCHANGED <<tbl, ui32TimeCorrSeqCount, sTimeCorr, lastStop, g_ui32ClockSource>>
    ]_vars

\* PostClockSpeedChange is about to return from a change to another speed of
\* the same bucket: the window PreClockSpeedChange has stopped is kept, with
\* its accumulated time, to be merged with the next
C16_Witness ==
    /\ InPostClockSpeedChange /\ pc = "ret" /\ ~Guest
    /\ tbl.bAccumulatePeriod
    /\ lastStop.n = 1 /\ lastStop.os > 0
    /\ tbl.ui64CalibrationOSTimediff >= RGX_GPU_DVFS_TRANSITION_CALIBRATION_TIME_US
    /\ ui32ReturnedClockSpeed = arg
    /\ tbl.aui32DVFSClock[tbl.ui32CurrentDVFSId] # arg
    /\ RGX_GPU_DVFS_GET_INDEX(arg) = tbl.ui32CurrentDVFSId

(***************************************************************************)
(* SpecRing: _RGXMakeTimeCorrData store by store.  The stores to the       *)
(* fields of the entry wait in the store buffer of the writing CPU and     *)
(* reach memory in any order; OSWriteMemoryBarrier returns once they all   *)
(* have.  The reader is the consumer of the ring: it samples the sequence  *)
(* count, reads the entry it addresses, and samples the count again.       *)
(***************************************************************************)
RecordFields == <<"ui64CRTimeStamp", "ui64OSTimeStamp", "ui32CoreClockSpeed",
                  "ui64CRDeltaToOSDeltaKNs">>

\* the record written with sequence value n: no two records agree in any field
RingRecord(n) == [ui64CRTimeStamp |-> n, ui64OSTimeStamp |-> n * TickNs,
                  ui32CoreClockSpeed |-> NominalSpeed + n,
                  ui64CRDeltaToOSDeltaKNs |-> UsToHz - n]

\* a barrier that orders nothing
NoWriteMemoryBarrier(buf) == TRUE

\* OSWriteMemoryBarrier: the stores issued before it have reached memory
OSWriteMemoryBarrier(buf) == buf = {}

\* ui32NewSeqCount = ui32TimeCorrSeqCount + 1
Writer_Begin ==
    /\ wpc = 0
    /\ ui32TimeCorrSeqCount < MaxRingSeq
    /\ wSeq' = ui32TimeCorrSeqCount + 1
    /\ wpc' = 1
    /\ UNCHANGED <<coreVars, wbuf, rpc, rS1, rS2, rSeen, published>>

\* psTimeCorr-><field> = ..., in program order
Writer_Store ==
    /\ wpc \in 1 .. Len(RecordFields)
    /\ wbuf' = wbuf \cup {[slot |-> RGXFWIF_TIME_CORR_CURR_INDEX(wSeq),
                           field |-> RecordFields[wpc],
                           val |-> RingRecord(wSeq)[RecordFields[wpc]]]}
    /\ wpc' = wpc + 1
    /\ UNCHANGED <<coreVars, wSeq, rpc, rS1, rS2, rSeen, published>>

\* a buffered store reaches memory
Ring_Drain ==
    /\ \E st \in wbuf :
          /\ sTimeCorr' = [sTimeCorr EXCEPT ![st.slot][st.field] = st.val]
          /\ wbuf' = wbuf \ {st}
    /\ UNCHANGED <<driverMode, clockAvailable, g_ui32ClockSource, powerState, hPowerLock,
                   hostSteps, hwTimer,
                   timingSpeed, tbl, ui32TimeCorrSeqCount, mgrVars, perVars, lastStop,
                   wpc, wSeq, rpc, rS1, rS2, rSeen, published>>

Writer_Barrier ==
    /\ wpc = Len(RecordFields) + 1
    /\ OSWriteMemoryBarrier(wbuf)
    /\ wpc' = wpc + 1
    /\ UNCHANGED <<coreVars, wSeq, wbuf, rpc, rS1, rS2, rSeen, published>>

\* psGpuUtilFWCB->ui32TimeCorrSeqCount = ui32NewSeqCount
Writer_Publish ==
    /\ wpc = Len(RecordFields) + 2
    /\ ui32TimeCorrSeqCount' = wSeq
    /\ published' = Append(published, RingRecord(wSeq))
    /\ wpc' = 0
    /\ wSeq' = 0
    /\ UNCHANGED <<driverMode, clockAvailable, g_ui32ClockSource, powerState, hPowerLock,
                   hostSteps, hwTimer,
                   timingSpeed, tbl, sTimeCorr, mgrVars, perVars, lastStop,
                   wbuf, rpc, rS1, rS2, rSeen>>

Reader_Sample1 ==
    /\ rpc = 0
    /\ rS1' = ui32TimeCorrSeqCount
    /\ rpc' = 1
    /\ UNCHANGED <<coreVars, wpc, wSeq, wbuf, rS2, rSeen, published>>

Reader_Read ==
    /\ rpc \in 1 .. Len(RecordFields)
    /\ rSeen' = [rSeen EXCEPT ![RecordFields[rpc]] =
                    sTimeCorr[RGXFWIF_TIME_CORR_CURR_INDEX(rS1)][RecordFields[rpc]]]
    /\ rpc' = rpc + 1
    /\ UNCHANGED <<coreVars, wpc, wSeq, wbuf, rS1, rS2, published>>

Reader_Sample2 ==
    /\ rpc = Len(RecordFields) + 1
    /\ rS2' = ui32TimeCorrSeqCount
    /\ rpc' = rpc + 1
    /\ UNCHANGED <<coreVars, wpc, wSeq, wbuf, rS1, rSeen, published>>

\* the reader has used or dropped what it read and goes round again
Reader_Done ==
    /\ rpc = Len(RecordFields) + 2
    /\ rpc' = 0 /\ rS1' = 0 /\ rS2' = 0 /\ rSeen' = ZeroRecord
    /\ UNCHANGED <<coreVars, wpc, wSeq, wbuf, published>>

NextRing ==
    \/ Writer_Begin
    \/ Writer_Store
    \/ Ring_Drain
    \/ Writer_Barrier
    \/ Writer_Publish
    \/ Reader_Sample1
    \/ Reader_Read
    \/ Reader_Sample2
    \/ Reader_Done

SpecRing == Init /\ [][NextRing]_vars

\* the record published with sequence value n; the ring starts zeroed
PublishedRecord(n) == IF n = 0 THEN ZeroRecord ELSE published[n]

ReaderDone == rpc = Len(RecordFields) + 2

\* C1: record publication is never torn.  When the reader's two samples of the
\* sequence count agree, the fields it read in between are exactly the fields
\* of the record published with that sequence value, under every interleaving
\* with the writer and every order in which the writer's stores reach memory.
C1_NoTornRead ==
    (ReaderDone /\ rS1 = rS2) => rSeen = PublishedRecord(rS1)

\* the reader got equal samples of a sequence value whose entry has been
\* reused, while the writer had stores of the next record in flight
C1_Witness ==
    /\ ReaderDone /\ rS1 = rS2
    /\ rS1 > RingSize
    /\ wSeq = rS1 + 1
    /\ wbuf # {}

(***************************************************************************)
(* SpecCalc: a hook has reached its call of _RGXGPUFreqCalibrationCalculate *)
(* with accumulators drawn from a bounded set, and runs to its return.     *)
(***************************************************************************)
\* the accumulators drawn: every pair of small values, and the pair of the
\* example in the description of Calculate
CalcInputs ==
    ((0 .. CalcMaxTicks) \X (0 .. CalcMaxUs)) \cup {<<100000000, 100000>>}

InitCalc ==
    /\ driverMode = "native"
    /\ clockAvailable = TRUE
    /\ g_ui32ClockSource = PVRSRV_APPHINT_TIMECORRCLOCK
    /\ powerState = "On"
    /\ hPowerLock = "mgr"
    /\ hostSteps = 0
    /\ hwTimer = 0
    /\ \E s \in Speeds, in \in CalcInputs, id \in 0 .. (RGX_GPU_DVFS_TABLE_SIZE - 1) :
          /\ timingSpeed = s
          /\ tbl = [ZeroTable EXCEPT
                       !.aui32DVFSClock = [i \in 0 .. (RGX_GPU_DVFS_TABLE_SIZE - 1) |-> NominalSpeed + i],
                       !.ui32CurrentDVFSId = id,
                       !.ui32CalibrationPeriod = RGX_GPU_DVFS_FIRST_CALIBRATION_TIME_US,
                       !.ui64CalibrationCRTimediff = in[1],
                       !.ui64CalibrationOSTimediff = in[2]]
          /\ \/ hook = "PrePowerOff" /\ arg = 0 /\ ui32ReturnedClockSpeed = 0
             \/ hook = "PostClockSpeedChange" /\ arg = s /\ ui32ReturnedClockSpeed = s
    /\ ui32TimeCorrSeqCount = 0
    /\ sTimeCorr = [i \in 0 .. (RingSize - 1) |-> ZeroRecord]
    /\ pc = "calc"
    /\ eError = "none"
    /\ ppc = "idle" /\ ui64TimeNow = 0
    /\ lastStop = NoStop
    /\ RingIdle

NextCalc ==
    \/ MgrCalculate
    \/ MgrStart
    \/ MgrMakeRecord
    \/ PostClockSpeedChange_Clear
    \/ MgrReturn

SpecCalc == InitCalc /\ [][NextCalc]_vars

\* C9: for accumulated ticks T and accumulated host time U > 0, Calculate
\* stores in the current row of aui32DVFSClock, and returns, T * 1000000 / U
\* rounded down; T = 100000000 and U = 100000 give 1000000000.
C9_CalculateValue ==
    [][(pc = "calc" /\ pc' # pc /\ tbl.ui64CalibrationOSTimediff > 0) =>
        LET T == tbl.ui64CalibrationCRTimediff
            U == tbl.ui64CalibrationOSTimediff
            r == tbl'.aui32DVFSClock[tbl.ui32CurrentDVFSId]
        IN  /\ pc' # "fault"
            /\ T <= CalcMaxTicks + 1 => IsFloorHz(r, T, U)
            /\ (T = 100000000 /\ U = 100000) => r = 1000000000
            /\ InPostClockSpeedChange => ui32ReturnedClockSpeed' = r
    ]_vars

\* Calculate has run on the accumulators of the example and the hook goes on
\* with the result
C9_Witness ==
    /\ InPostClockSpeedChange /\ pc = "start"
    /\ ui32ReturnedClockSpeed = 1000000000
    /\ \E i \in 0 .. (RGX_GPU_DVFS_TABLE_SIZE - 1) : tbl.aui32DVFSClock[i] = 1000000000
    /\ tbl.ui64CalibrationCRTimediff = 0

(***************************************************************************)
(* Properties of the periodic hook in the whole system (Spec).             *)
(***************************************************************************)
\* C6: RGXGPUFreqCalibrateCorrelatePeriodic does nothing when the host time
\* elapsed since the window was opened is less than the calibration period:
\* it goes on to no attempt on the power lock.  The elapsed time is that of
\* the moment of the comparison, on the clock the window was opened with.
\* Stated for the comparisons made with the device powered.
C6_NotDueIsNoOp ==
    [][(ppc = "check" /\ ppc' # ppc /\ powerState = "On"
          /\ RGXGPUFreqCalibrateClockus64(g_ui32ClockSource) >= tbl.ui64CalibrationOSTimestamp
          /\ RGXGPUFreqCalibrateClockus64(g_ui32ClockSource) - tbl.ui64CalibrationOSTimestamp
                < tbl.ui32CalibrationPeriod)
        => (ppc' = "idle" /\ UNCHANGED <<hPowerLock, devVars>>)
    ]_vars

\* C7: the periodic hook takes the power lock by a try-acquire only, which
\* never waits; when the acquire fails it returns and has touched nothing;
\* when it returns it holds no lock; and when the device is not On it
\* releases the lock and returns with the table, the ring and the sequence
\* count as they were.
C7_PeriodicLock ==
    [][/\ (hPowerLock' = "periodic" /\ hPowerLock # "periodic")
             => (ppc = "trylock" /\ hPowerLock = "none" /\ UNCHANGED devVars)
       /\ (ppc = "trylock" /\ ppc' # ppc /\ hPowerLock # "none")
             => (ppc' = "idle" /\ UNCHANGED <<hPowerLock, devVars, powerState,
                                              g_ui32ClockSource>>)
       /\ (ppc = "trylock" /\ ppc' # ppc /\ hPowerLock = "none")
             => (ppc' = "power" /\ hPowerLock' = "periodic")
       /\ (ppc = "power" /\ ppc' # ppc /\ powerState # "On")
             => (ppc' = "idle" /\ hPowerLock' = "none" /\ UNCHANGED devVars)
       /\ (ppc = "unlock" /\ ppc' # ppc) => (ppc' = "idle" /\ hPowerLock' = "none")
       /\ ppc' = "idle" => hPowerLock' # "periodic"
       /\ (ppc \in {"power", "stop", "calc", "start", "rec", "unlock"})
             => hPowerLock = "periodic"
       /\ (ppc = "trylock") => ENABLED Periodic_TryLock
    ]_vars

\* the periodic hook holds the lock it has just acquired and finds the device
\* off, after a window has been open for its whole calibration period
C7_Witness ==
    /\ ppc = "power" /\ hPowerLock = "periodic"
    /\ powerState = "Off"
    /\ ui32TimeCorrSeqCount > 0
    /\ RGXGPUFreqCalibrateClockus64(g_ui32ClockSource) - tbl.ui64CalibrationOSTimestamp
          >= tbl.ui32CalibrationPeriod
    /\ tbl.ui32CalibrationPeriod > 0

(***************************************************************************)
(* SpecClock: the hooks step by step, with a monotonic host clock that can *)
(* become unavailable: OSClockMonotonicns64 then returns an error and      *)
(* leaves its output unset.                                                *)
(***************************************************************************)
\* the monotonic clock becomes unavailable, or available again
OSClock_Change ==
    /\ NoBodyRunning
    /\ clockAvailable' = ~clockAvailable
    /\ UNCHANGED <<driverMode, hostSteps, hwTimer, mgrVars, perVars, devVars,
                   g_ui32ClockSource, powerState, hPowerLock, timingSpeed, ringVars>>

NextClock ==
    \/ NextSteps
    \/ OSClock_Change

SpecClock == Init /\ [][NextClock]_vars

\* _RGXMakeTimeCorrData runs with the device powered while the read of the
\* selected host clock fails
FailedClockRecordStep ==
    /\ pc = "rec" /\ pc' # pc
    /\ powerState = "On"
    /\ g_ui32ClockSource = RGXTIMECORR_CLOCK_MONO
    /\ ~clockAvailable

\* C11: when the read of the host clock fails during MakeTimeCorrData no
\* record is produced: the sequence count is not advanced and no field of
\* any entry of the ring is written.
C11_NoRecordOnClockFailure ==
    [][FailedClockRecordStep => UNCHANGED <<ui32TimeCorrSeqCount, sTimeCorr>>]_vars

(***************************************************************************)
(* SpecAll: the whole system step by step: the hooks called with the power *)
(* lock held and the periodic hook, every function call a step of its own. *)
(***************************************************************************)
NextAll ==
    \/ NextSteps
    \/ Periodic

SpecAll == Init /\ [][NextAll]_vars

\* positions of a hook past its check of the driver mode
PastModeCheck == {"entry", "stop", "calc", "start", "rec", "clear", "post", "fault"}

\* C12: in a guest driver the pre- and post-clock-source-change hooks,
\* PrePowerOff, PostPowerOn, PreClockSpeedChange, PostClockSpeedChange and
\* the periodic hook return at their check of the driver mode: no field of
\* the DVFS table changes, no record is written, no Stop, Start or
\* MakeTimeCorrData (the steps that read the hardware timer) runs, the
\* periodic hook takes no lock, and PostClockSpeedChange returns the speed
\* it was called with.
C12_GuestHooksDoNothing ==
    [][Guest =>
        /\ UNCHANGED <<tbl, ui32TimeCorrSeqCount, sTimeCorr, lastStop>>
        /\ pc \notin PastModeCheck /\ pc' \notin PastModeCheck
        /\ ppc = "idle" /\ ppc' = "idle"
        /\ hPowerLock' # "periodic"
        /\ (hook' = "PostClockSpeedChange" /\ hook # hook')
              => (pc' = "ret" /\ ui32ReturnedClockSpeed' = arg')
        /\ (hook = "PostClockSpeedChange" /\ pc = "ret")
              => ui32ReturnedClockSpeed = arg
        /\ (hook = "SetClock" /\ pc = "swap") => pc' = "ok"
    ]_vars

\* a guest is about to return from PostClockSpeedChange, called with a speed
\* of another bucket long after power-on, with another clock selected
C12_Witness ==
    /\ Guest /\ powerState = "On"
    /\ hook = "PostClockSpeedChange" /\ pc = "ret"
    /\ RGX_GPU_DVFS_GET_INDEX(arg) # tbl.ui32CurrentDVFSId
    /\ ui32ReturnedClockSpeed = arg
    /\ hostSteps >= RGX_GPU_DVFS_FIRST_CALIBRATION_TIME_US
    /\ g_ui32ClockSource # PVRSRV_APPHINT_TIMECORRCLOCK
    /\ tbl = ZeroTable /\ ui32TimeCorrSeqCount = 0

\* a Calculate step of a hook called with the power lock held, or of the
\* periodic hook
CalculateStep ==
    \/ pc = "calc" /\ pc' # pc /\ pc' # "fault"
    \/ ppc = "calc" /\ ppc' = "start"

\* a Start step of either
StartStep ==
    \/ pc = "start" /\ pc' # pc
    \/ ppc = "start" /\ ppc' # ppc

\* C13: once a window has closed the current row of aui32DVFSClock is not
\* zero: Start leaves a non-zero speed in the row it selects and no
\* Calculate of any hook stores 0 in the current row.  Stated for the steps
\* taken with the device powered.
C13_KnownClockNonZero ==
    [][((CalculateStep \/ StartStep) /\ powerState = "On")
         => tbl'.aui32DVFSClock[tbl'.ui32CurrentDVFSId] # 0]_vars

\* a Stop step of either
StopStep ==
    \/ pc = "stop" /\ pc' # pc
    \/ ppc = "stop" /\ ppc' # ppc

\* C14 as stated: the accumulators never decrease except by a reset at a
\* window boundary (a Stop) at which bAccumulatePeriod is clear, the Stop
\* then leaving its own delta; and while bAccumulatePeriod is set no step
\* takes an accumulator that is not zero to zero.  Stated for the steps
\* taken with the device powered.
C14_ResetOnlyWithoutFlag ==
    [][powerState = "On" =>
        /\ \/ /\ tbl'.ui64CalibrationOSTimediff >= tbl.ui64CalibrationOSTimediff
              /\ tbl'.ui64CalibrationCRTimediff >= tbl.ui64CalibrationCRTimediff
           \/ /\ StopStep /\ ~tbl.bAccumulatePeriod
              /\ tbl'.ui64CalibrationOSTimediff = lastStop'.os
              /\ tbl'.ui64CalibrationCRTimediff = lastStop'.cr
        /\ tbl.bAccumulatePeriod =>
              /\ ~(tbl.ui64CalibrationOSTimediff # 0 /\ tbl'.ui64CalibrationOSTimediff = 0)
              /\ ~(tbl.ui64CalibrationCRTimediff # 0 /\ tbl'.ui64CalibrationCRTimediff = 0)
    ]_vars

\* C14, amended: a step leaves the accumulators alone, or it is a Calculate,
\* which sets both to zero whatever bAccumulatePeriod is, or it is a Stop:
\* with bAccumulatePeriod set the Stop adds its deltas, so that neither
\* accumulator decreases, and with it clear the Stop replaces both
\* accumulators by its deltas.
C14_AccumulatorSteps ==
    [][\/ UNCHANGED <<tbl.ui64CalibrationOSTimediff, tbl.ui64CalibrationCRTimediff>>
       \/ /\ CalculateStep
          /\ tbl'.ui64CalibrationOSTimediff = 0
          /\ tbl'.ui64CalibrationCRTimediff = 0
       \/ /\ StopStep /\ tbl.bAccumulatePeriod
          /\ tbl'.ui64CalibrationOSTimediff = tbl.ui64CalibrationOSTimediff + lastStop'.os
          /\ tbl'.ui64CalibrationCRTimediff = tbl.ui64CalibrationCRTimediff + lastStop'.cr
       \/ /\ StopStep /\ ~tbl.bAccumulatePeriod
          /\ tbl'.ui64CalibrationOSTimediff = lastStop'.os
          /\ tbl'.ui64CalibrationCRTimediff = lastStop'.cr
    ]_vars

\* PrePowerOff has calibrated a window that was opened with bAccumulatePeriod
\* set: its Calculate has reset the accumulators with the flag still set
C14_Witness ==
    /\ hook = "PrePowerOff" /\ pc = "ret" /\ powerState = "On"
    /\ tbl.bAccumulatePeriod
    /\ lastStop.n = 0
    /\ tbl.ui64CalibrationOSTimediff = 0 /\ tbl.ui64CalibrationCRTimediff = 0
    /\ tbl.aui32DVFSClock[tbl.ui32CurrentDVFSId] \notin Speeds \cup {0}

\* the newest entry of the ring
NewestRecord == sTimeCorr[RGXFWIF_TIME_CORR_CURR_INDEX(ui32TimeCorrSeqCount)]

CurrentClock == tbl.aui32DVFSClock[tbl.ui32CurrentDVFSId]

\* no hook is past its checks: the periodic hook, if called, holds no lock yet
NoHookInProgress == pc = "idle" /\ ppc \in {"idle", "check", "trylock"}

\* C18: the timers are correlated at the beginning of every calibration
\* period.  In every hook Start is followed at once by MakeTimeCorrData, with
\* the power lock held throughout so that no other hook runs in between; a
\* record is written by MakeTimeCorrData only, and only right after a Start
\* of the same hook, so the sequence count goes up by one per window opened;
\* the record holds the current row of aui32DVFSClock as Start left it; and
\* whenever the device is On and no hook is in progress the newest record
\* holds the speed of the current row.
C18_RecordPerWindow ==
    [][/\ (pc = "start" /\ pc' # pc)
             => (pc' = "rec" /\ UNCHANGED <<ui32TimeCorrSeqCount, sTimeCorr>>)
       /\ (ppc = "start" /\ ppc' # ppc)
             => (ppc' = "rec" /\ UNCHANGED <<ui32TimeCorrSeqCount, sTimeCorr>>)
       /\ (pc' = "rec" /\ pc # "rec") => pc = "start"
       /\ (ppc' = "rec" /\ ppc # "rec") => ppc = "start"
       /\ (pc = "rec") => (hPowerLock = "mgr" /\ NoBodyRunning' = NoBodyRunning)
       /\ (ppc = "rec") => (hPowerLock = "periodic" /\ pc = "idle" /\ pc' = "idle")
       /\ (pc = "rec" /\ pc' = pc) \/ (ppc = "rec" /\ ppc' = ppc)
             => UNCHANGED <<tbl, ui32TimeCorrSeqCount, sTimeCorr>>
       /\ (pc = "rec" /\ pc' # pc) \/ (ppc = "rec" /\ ppc' # ppc)
             => /\ ui32TimeCorrSeqCount' = ui32TimeCorrSeqCount + 1
                /\ tbl' = tbl
                /\ NewestRecord'.ui32CoreClockSpeed = CurrentClock
                /\ pc' \notin {"start", "rec"} /\ ppc' \notin {"start", "rec"}
       /\ (ui32TimeCorrSeqCount' # ui32TimeCorrSeqCount \/ sTimeCorr' # sTimeCorr)
             => (pc = "rec" /\ pc' # pc) \/ (ppc = "rec" /\ ppc' # ppc)
       /\ (powerState = "On" /\ NoHookInProgress)
             => NewestRecord.ui32CoreClockSpeed = CurrentClock
    ]_vars

\* with the device On and no hook in progress, the newest record holds the
\* nominal speed of a window opened after a calibrated one: the row of the
\* other bucket holds a measured speed
C18_Witness ==
    /\ powerState = "On" /\ NoHookInProgress /\ hPowerLock = "none"
    /\ ui32TimeCorrSeqCount = 2
    /\ NewestRecord.ui32CoreClockSpeed = CurrentClock
    /\ CurrentClock \in Speeds
    /\ NewestRecord.ui64OSTimeStamp > 0
    /\ \E i \in 0 .. (RGX_GPU_DVFS_TABLE_SIZE - 1) :
          i # tbl.ui32CurrentDVFSId /\ tbl.aui32DVFSClock[i] \notin Speeds \cup {0}

\* C19: whenever the periodic hook runs Calculate, the host time accumulated
\* by the Stop it has just run is at least the calibration period, and so is
\* not zero: a window restarted by another thread between the due-time check
\* and the taking of the power lock does not invalidate the check.
C19_PeriodicCalculateIsDue ==
    [][(ppc = "calc" /\ ppc' # ppc) =>
        /\ tbl.ui64CalibrationOSTimediff >= tbl.ui32CalibrationPeriod
        /\ tbl.ui64CalibrationOSTimediff # 0
    ]_vars

\* C20: no interval of host time is counted twice.  The host clock reads 0 at
\* initialisation, so no window is older than the time elapsed since: the
\* accumulated host time never exceeds it, a window kept open over a clock
\* speed change that changed nothing included.  Stated for the device powered.
C20_NoDoubleCounting ==
    powerState = "On" => tbl.ui64CalibrationOSTimediff <= HostNs \div 1000

(***************************************************************************)
(* SpecStart: a hook has reached its call of                               *)
(* _RGXGPUFreqCalibrationPeriodStart with a table drawn from a bounded     *)
(* set, and runs to its return.                                            *)
(***************************************************************************)
\* a speed Calculate has measured, unlike every nominal speed
CalibratedHz == 1000000

\* what a row of aui32DVFSClock can hold: nothing, a nominal speed, a measured one
RowValues == {0, CalibratedHz} \cup Speeds

Thresholds == {RGX_GPU_DVFS_FIRST_CALIBRATION_TIME_US,
               RGX_GPU_DVFS_TRANSITION_CALIBRATION_TIME_US,
               RGX_GPU_DVFS_PERIODIC_CALIBRATION_TIME_US}

\* the place of a calibration period in the order first, transition, periodic
Stage(p) ==
    CASE p = RGX_GPU_DVFS_FIRST_CALIBRATION_TIME_US -> 1
      [] p = RGX_GPU_DVFS_TRANSITION_CALIBRATION_TIME_US -> 2
      [] p = RGX_GPU_DVFS_PERIODIC_CALIBRATION_TIME_US -> 3
      [] OTHER -> 0

InitStart ==
    /\ driverMode = "native"
    /\ clockAvailable = TRUE
    /\ powerState = "On"
    /\ hPowerLock = "mgr"
    /\ hostSteps = 1
    /\ hwTimer = 1
    /\ \E s \in Speeds, r \in [0 .. (RGX_GPU_DVFS_TABLE_SIZE - 1) -> RowValues],
          p \in Thresholds \cup {0}, id \in 0 .. (RGX_GPU_DVFS_TABLE_SIZE - 1) :
          /\ timingSpeed = s
          /\ \/ /\ hook = "PostPowerOn" /\ arg = 0 /\ ui32ReturnedClockSpeed = 0
                /\ g_ui32ClockSource = PVRSRV_APPHINT_TIMECORRCLOCK
                /\ tbl = [ZeroTable EXCEPT
                             !.aui32DVFSClock = r, !.ui32CalibrationPeriod = p,
                             !.ui32CurrentDVFSId = id,
                             !.bAccumulatePeriod = (RGX_GPU_DVFS_GET_INDEX(s) = id)]
             \/ /\ hook = "PostClockSpeedChange" /\ arg = s /\ ui32ReturnedClockSpeed = s
                /\ RGX_GPU_DVFS_GET_INDEX(s) # id
                /\ g_ui32ClockSource = PVRSRV_APPHINT_TIMECORRCLOCK
                /\ \E b \in BOOLEAN :
                      tbl = [ZeroTable EXCEPT
                                !.aui32DVFSClock = r, !.ui32CalibrationPeriod = p,
                                !.ui32CurrentDVFSId = id, !.bAccumulatePeriod = b]
             \/ /\ hook = "SetClock" /\ ui32ReturnedClockSpeed = 1
                /\ arg = 1 /\ g_ui32ClockSource = 1
                /\ RGX_GPU_DVFS_GET_INDEX(s) = id
                /\ tbl = [ZeroTable EXCEPT
                             !.aui32DVFSClock = r, !.ui32CalibrationPeriod = p,
                             !.ui32CurrentDVFSId = id, !.bAccumulatePeriod = TRUE]
    /\ ui32TimeCorrSeqCount = 0
    /\ sTimeCorr = [i \in 0 .. (RingSize - 1) |-> ZeroRecord]
    /\ pc = "start"
    /\ eError = "none"
    /\ ppc = "idle" /\ ui64TimeNow = 0
    /\ lastStop = NoStop
    /\ RingIdle

NextStart ==
    \/ MgrStart
    \/ MgrMakeRecord
    \/ PostClockSpeedChange_Clear
    \/ SetClock_Ok
    \/ MgrReturn

SpecStart == InitStart /\ [][NextStart]_vars

\* C17: Start chooses the calibration period by this rule, whatever the
\* table held before.  If the row of the speed's bucket holds 0 or the nominal
\* speed, the row gets the nominal speed and the period becomes the first
\* calibration time.  Otherwise the row stays, and the period becomes the
\* transition time if it was the first calibration time, the periodic time
\* if it was anything else.  So after a Start the period is one of the three,
\* and a Start on a calibrated row never steps back in the order first,
\* transition, periodic: first steps to transition, transition and periodic
\* to periodic.
C17_StartPeriodRule ==
    [][(pc = "start" /\ pc' # pc) =>
        LET point == RGX_GPU_DVFS_GET_INDEX(timingSpeed)
            known == tbl.aui32DVFSClock[point]
            uncal == known = 0 \/ known = timingSpeed
            before == tbl.ui32CalibrationPeriod
            after == tbl'.ui32CalibrationPeriod
        IN  /\ uncal =>
                  /\ tbl'.aui32DVFSClock = [tbl.aui32DVFSClock EXCEPT ![point] = timingSpeed]
                  /\ after = RGX_GPU_DVFS_FIRST_CALIBRATION_TIME_US
            /\ (~uncal /\ before = RGX_GPU_DVFS_FIRST_CALIBRATION_TIME_US) =>
                  /\ tbl'.aui32DVFSClock = tbl.aui32DVFSClock
                  /\ after = RGX_GPU_DVFS_TRANSITION_CALIBRATION_TIME_US
            /\ (~uncal /\ before # RGX_GPU_DVFS_FIRST_CALIBRATION_TIME_US) =>
                  /\ tbl'.aui32DVFSClock = tbl.aui32DVFSClock
                  /\ after = RGX_GPU_DVFS_PERIODIC_CALIBRATION_TIME_US
            /\ after \in Thresholds
            /\ (~uncal /\ before \in Thresholds) =>
                  /\ Stage(after) >= Stage(before)
                  /\ Stage(after) = IF Stage(before) = 1 THEN 2 ELSE 3
            /\ tbl'.ui32CurrentDVFSId = point
    ]_vars

\* Start has run on a row holding a measured speed and has set the periodic
\* time as the period of the window it has opened
C17_Witness ==
    /\ pc = "rec"
    /\ tbl.aui32DVFSClock[tbl.ui32CurrentDVFSId] = CalibratedHz
    /\ tbl.ui32CalibrationPeriod = RGX_GPU_DVFS_PERIODIC_CALIBRATION_TIME_US
    /\ tbl.ui64CalibrationOSTimestamp = RGXGPUFreqCalibrateClockus64(g_ui32ClockSource)
    /\ tbl.ui64CalibrationCRTimestamp = hwTimer

====
